---- MODULE Spec2Model ----
(***************************************************************************)
(* The RDM transforms of rsatoolbox (src/src/rsatoolbox/rdm/transform.py)  *)
(* as a state machine.                                                     *)
(*                                                                         *)
(* A caller holds one RDMs container, rdms, and calls the transforms on    *)
(* it; rdms_new is the container the last call returned.  numpy arrays are *)
(* objects of a heap and a container holds a reference to its array, so    *)
(* that an in-place assignment through one reference is seen through every *)
(* other reference to the same array.                                      *)
(*                                                                         *)
(* Numbers are exact: a float is a pair <<n, d>>, the fraction n/d in      *)
(* lowest terms with d > 0, and the three non-finite floats are <<0, 0>>   *)
(* (NaN), <<1, 0>> (+inf) and <<-1, 0>> (-inf).  Rounding is not modelled. *)
(***************************************************************************)
EXTENDS Integers, Sequences, FiniteSets, TLC

(* ---------------------------------------------------------------- bounds *)

\* Largest number of entries (n_rdm * n_pairs) of an input batch.
MaxEntries == 3
\* Input dissimilarities are the integers -MaxNeg .. MaxVal.
MaxNeg == 2
MaxVal == 1
\* Largest number of successive applications of rank_transform, each to the
\* result of the one before.
MaxCalls == 2
\* The batches of the geodesic specification: at most GeoEntries entries,
\* at least three patterns, dissimilarities 0 .. GeoMaxVal.
GeoEntries == 6
GeoMaxVal == 4

VARIABLES heap, rdms, rdms_new, last

vars == <<heap, rdms, rdms_new, last>>

(* --------------------------------------------------------------- numbers *)

Abs(n) == IF n < 0 THEN 0 - n ELSE n

RECURSIVE GCD(_, _)
GCD(a, b) == IF b = 0 THEN a ELSE GCD(b, a % b)

\* The fraction n/d (d # 0) in lowest terms with a positive denominator.
Rat(n, d) ==
    LET g == GCD(Abs(n), Abs(d))
        s == IF d < 0 THEN 0 - 1 ELSE 1
    IN  <<(s * n) \div g, (s * d) \div g>>

Num(n) == <<n, 1>>
NaN == <<0, 0>>
PInf == <<1, 0>>
NInf == <<0 - 1, 0>>

IsNaN(a) == a = NaN
IsFinite(a) == a[2] # 0
IsInf(a) == a[2] = 0 /\ a[1] # 0

FNeg(a) == <<0 - a[1], a[2]>>

FAdd(a, b) ==
    IF IsNaN(a) \/ IsNaN(b) THEN NaN
    ELSE IF IsFinite(a) /\ IsFinite(b) THEN Rat(a[1] * b[2] + b[1] * a[2], a[2] * b[2])
    ELSE IF IsInf(a) /\ IsInf(b) THEN (IF a = b THEN a ELSE NaN)
    ELSE IF IsInf(a) THEN a ELSE b

FSub(a, b) == FAdd(a, FNeg(b))

FMul(a, b) ==
    IF IsNaN(a) \/ IsNaN(b) THEN NaN
    ELSE IF IsFinite(a) /\ IsFinite(b) THEN Rat(a[1] * b[1], a[2] * b[2])
    ELSE IF a[1] = 0 \/ b[1] = 0 THEN NaN
    ELSE IF (a[1] < 0) = (b[1] < 0) THEN PInf ELSE NInf

\* numpy's true division: x/0 is +-inf, 0/0 is NaN (a warning, not an error).
FDiv(a, b) ==
    IF IsNaN(a) \/ IsNaN(b) THEN NaN
    ELSE IF IsInf(b) THEN (IF IsInf(a) THEN NaN ELSE Num(0))
    ELSE IF b[1] = 0 THEN (IF a[1] = 0 THEN NaN ELSE IF a[1] > 0 THEN PInf ELSE NInf)
    ELSE IF IsInf(a) THEN (IF (a[1] < 0) = (b[1] < 0) THEN PInf ELSE NInf)
    ELSE Rat(a[1] * b[2], a[2] * b[1])

\* Comparisons are IEEE's: every comparison with NaN is false.
FEq(a, b) == ~IsNaN(a) /\ ~IsNaN(b) /\ a = b

FLt(a, b) ==
    /\ ~IsNaN(a)
    /\ ~IsNaN(b)
    /\ IF IsFinite(a) /\ IsFinite(b) THEN a[1] * b[2] < b[1] * a[2]
       ELSE IF IsInf(a) /\ IsInf(b) THEN a[1] < b[1]
       ELSE IF IsInf(a) THEN a[1] < 0
       ELSE b[1] > 0

FLe(a, b) == FLt(a, b) \/ FEq(a, b)
FGt(a, b) == FLt(b, a)
FGe(a, b) == FLe(b, a)

\* np.minimum propagates NaN.
FMin(a, b) == IF IsNaN(a) \/ IsNaN(b) THEN NaN ELSE IF FLt(b, a) THEN b ELSE a

(* ---------------------------------------------------------------- arrays *)

\* A dissimilarity block is a sequence of n_rdm rows of n_pairs numbers.
Range(s) == {s[i] : i \in 1..Len(s)}

RECURSIVE Flatten(_)
Flatten(a) == IF a = <<>> THEN <<>> ELSE Head(a) \o Flatten(Tail(a))

\* ndarray.max() and ndarray.min() over all entries.
ArrayMax(a) ==
    LET f == Flatten(a)
    IN  IF \E i \in 1..Len(f) : IsNaN(f[i]) THEN NaN
        ELSE CHOOSE m \in Range(f) : \A i \in 1..Len(f) : FLe(f[i], m)

ArrayMin(a) ==
    LET f == Flatten(a)
    IN  IF \E i \in 1..Len(f) : IsNaN(f[i]) THEN NaN
        ELSE CHOOSE m \in Range(f) : \A i \in 1..Len(f) : FLe(m, f[i])

\* The k-th smallest (k = 1..Len(f)) of a sequence of finite numbers.
KthSmallest(f, k) ==
    CHOOSE v \in Range(f) :
        /\ Cardinality({i \in 1..Len(f) : FLt(f[i], v)}) < k
        /\ k <= Cardinality({i \in 1..Len(f) : FLe(f[i], v)})

\* np.quantile(a, q), q in [0, 1], default method 'linear': over the
\* flattened, sorted array, the value at the virtual index q * (n - 1),
\* interpolated linearly between its two neighbours.
Quantile(a, q) ==
    LET f == Flatten(a)
        n == Len(f)
        virtual == FMul(q, Num(n - 1))
        previous == virtual[1] \div virtual[2]
        gamma == FSub(virtual, Num(previous))
        lo == KthSmallest(f, previous + 1)
        hi == KthSmallest(f, IF previous + 2 > n THEN n ELSE previous + 2)
    IN  FAdd(lo, FMul(FSub(hi, lo), gamma))

(* ---------------------------------------------------------------- labels *)

\* A measure label is a str, modelled as the sequence of its characters, or
\* None (an RDMs container built without a measure).
None == <<"None">>

S_ranks == <<"(", "r", "a", "n", "k", "s", ")">>
S_sp_ranks == <<" ">> \o S_ranks
S_euclidean == <<"e", "u", "c", "l", "i", "d", "e", "a", "n">>
S_mahalanobis == <<"m", "a", "h", "a", "l", "a", "n", "o", "b", "i", "s">>
S_squared_sp == <<"s", "q", "u", "a", "r", "e", "d", " ">>
S_sqrt_of == <<"s", "q", "r", "t", " ", "o", "f">>
S_transformed_sp == <<"t", "r", "a", "n", "s", "f", "o", "r", "m", "e", "d", " ">>
S_minmax_sp == <<"m", "i", "n", "m", "a", "x", " ">> \o S_transformed_sp
S_geotopological_sp == <<"g", "e", "o", "-", "t", "o", "p", "o", "l", "o", "g", "i", "c", "a", "l", " ">> \o S_transformed_sp
S_geodesic_sp == <<"g", "e", "o", "d", "e", "s", "i", "c", " ">> \o S_transformed_sp

\* sub in s, for two str.
Contains(s, sub) ==
    \E k \in 0..(Len(s) - Len(sub)) : SubSeq(s, k + 1, k + Len(sub)) = sub

\* str.strip(): leading and trailing whitespace removed.
Strip(s) ==
    LET solid == {i \in 1..Len(s) : s[i] # " "}
    IN  IF solid = {} THEN <<>>
        ELSE SubSeq(s, CHOOSE i \in solid : \A j \in solid : i <= j,
                       CHOOSE i \in solid : \A j \in solid : j <= i)

(* ------------------------------------------------- the RDMs container *)

\* The container of rsatoolbox.rdm.rdms (not part of the transform module):
\* a reference to its dissimilarity block, the measure label and the three
\* descriptor mappings.
RDMs(dissimilarities, dissimilarity_measure, descriptors, rdm_descriptors, pattern_descriptors) ==
    [dissimilarities |-> dissimilarities,
     dissimilarity_measure |-> dissimilarity_measure,
     descriptors |-> descriptors,
     rdm_descriptors |-> rdm_descriptors,
     pattern_descriptors |-> pattern_descriptors]

NoContainer == RDMs(0, None, <<>>, <<>>, <<>>)

\* A new array object on the heap; its reference is the new length.
Alloc(h, a) == Append(h, a)

\* rdms.get_vectors(): the batch of condensed vectors, handed out as a
\* working copy of the container's block.
get_vectors(h, c) == [heap |-> Alloc(h, h[c.dissimilarities]), ref |-> Len(h) + 1]

\* rdms.n_rdm: the number of rows.
n_rdm(h, c) == Len(h[c.dissimilarities])

\* copy.deepcopy of a descriptor mapping: an equal value that shares nothing.
deepcopy(d) == d

\* What a call leaves: the heap, and the container it returned or the
\* exception it raised.
Returned(h, c) == [status |-> "returned", error |-> "", heap |-> h, container |-> c]
Raised(h, e) == [status |-> "raised", error |-> e, heap |-> h, container |-> NoContainer]

(* ------------------------------------------------------ rank_transform *)

RankMethods == {"average", "min", "max", "dense", "ordinal"}

\* scipy.stats.rankdata(a, method) for a row of finite numbers.
rankdata(a, method) ==
    LET below(i) == Cardinality({j \in 1..Len(a) : FLt(a[j], a[i])})
        upto(i) == Cardinality({j \in 1..Len(a) : FLe(a[j], a[i])})
        before(i) == Cardinality({j \in 1..(i - 1) : FEq(a[j], a[i])})
        distinct(i) == Cardinality({a[j] : j \in {k \in 1..Len(a) : FLt(a[k], a[i])}})
    IN  [i \in 1..Len(a) |->
            CASE method = "min" -> Num(below(i) + 1)
              [] method = "max" -> Num(upto(i))
              [] method = "average" -> Rat(below(i) + 1 + upto(i), 2)
              [] method = "dense" -> Num(distinct(i) + 1)
              [] method = "ordinal" -> Num(below(i) + before(i) + 1)]

\* RankMeasure with the marker looked for together with its separating blank.
RankMeasureSpaced(dissimilarity_measure) ==
    LET measure == IF dissimilarity_measure = None \/ dissimilarity_measure = <<>>
                   THEN <<>> ELSE dissimilarity_measure
    IN  IF ~Contains(measure, S_sp_ranks) THEN Strip(measure \o S_sp_ranks)
        ELSE measure

\* Lines 35-37: the label of the ranks.
RankMeasure(dissimilarity_measure) ==
    LET measure == IF dissimilarity_measure = None \/ dissimilarity_measure = <<>>
                   THEN <<>> ELSE dissimilarity_measure
    IN  IF ~Contains(measure, S_ranks) THEN Strip(measure \o S_sp_ranks)
        ELSE measure

\* rank_transform with an unknown method ranked as 'average'.
rank_transform_unchecked(h, c, method) ==
    LET gv == get_vectors(h, c)
        d == gv.heap[gv.ref]
        m == IF method \in RankMethods THEN method ELSE "average"
        h1 == Alloc(gv.heap, [i \in 1..n_rdm(h, c) |-> rankdata(d[i], m)])
    IN  Returned(h1, RDMs(Len(h1), RankMeasure(c.dissimilarity_measure),
                          deepcopy(c.descriptors),
                          deepcopy(c.rdm_descriptors),
                          deepcopy(c.pattern_descriptors)))

rank_transform(h, c, method) ==
    LET gv == get_vectors(h, c)
        d == gv.heap[gv.ref]
    IN  IF method \notin RankMethods THEN Raised(gv.heap, "ValueError")
        ELSE LET h1 == Alloc(gv.heap, [i \in 1..n_rdm(h, c) |-> rankdata(d[i], method)])
             IN  Returned(h1, RDMs(Len(h1), RankMeasure(c.dissimilarity_measure),
                                   deepcopy(c.descriptors),
                                   deepcopy(c.rdm_descriptors),
                                   deepcopy(c.pattern_descriptors)))

(* ------------------------------------- sqrt_transform, positive_transform *)

\* dissimilarities[dissimilarities < 0] = 0
ClampNegative(a) ==
    [i \in 1..Len(a) |-> [j \in 1..Len(a[i]) |->
        IF FLt(a[i][j], Num(0)) THEN Num(0) ELSE a[i][j]]]

IsSquare(n) == \E r \in 0..n : r * r = n
Root(n) == CHOOSE r \in 0..n : r * r = n

\* np.sqrt of one entry: exact when the root is rational, and the symbol
\* <<"sqrt", n, d>> otherwise; NaN for a negative entry.
Sqrt(x) ==
    IF ~IsFinite(x) THEN (IF x = PInf THEN PInf ELSE NaN)
    ELSE IF x[1] < 0 THEN NaN
    ELSE IF IsSquare(x[1]) /\ IsSquare(x[2]) THEN <<Root(x[1]), Root(x[2])>>
    ELSE <<"sqrt", x[1], x[2]>>

sqrt_transform(h, c) ==
    LET gv == get_vectors(h, c)
        h1 == [gv.heap EXCEPT ![gv.ref] = ClampNegative(@)]
        h2 == Alloc(h1, [i \in 1..Len(h1[gv.ref]) |->
                            [j \in 1..Len(h1[gv.ref][i]) |-> Sqrt(h1[gv.ref][i][j])]])
        m == c.dissimilarity_measure
    IN  IF m # None /\ m = S_squared_sp \o S_euclidean
            THEN Returned(h2, RDMs(Len(h2), S_euclidean, deepcopy(c.descriptors),
                                   deepcopy(c.rdm_descriptors),
                                   deepcopy(c.pattern_descriptors)))
        ELSE IF m # None /\ m = S_squared_sp \o S_mahalanobis
            THEN Returned(h2, RDMs(Len(h2), S_mahalanobis, deepcopy(c.descriptors),
                                   deepcopy(c.rdm_descriptors),
                                   deepcopy(c.pattern_descriptors)))
        ELSE IF m = None THEN Raised(h2, "TypeError")
        ELSE Returned(h2, RDMs(Len(h2), S_sqrt_of \o m, deepcopy(c.descriptors),
                               deepcopy(c.rdm_descriptors),
                               deepcopy(c.pattern_descriptors)))

\* positive_transform assigning into the container's own block.
positive_transform_inplace(h, c) ==
    LET h1 == [h EXCEPT ![c.dissimilarities] = ClampNegative(@)]
    IN  Returned(h1, RDMs(c.dissimilarities, c.dissimilarity_measure,
                          deepcopy(c.descriptors),
                          deepcopy(c.rdm_descriptors),
                          deepcopy(c.pattern_descriptors)))

positive_transform(h, c) ==
    LET gv == get_vectors(h, c)
        h1 == [gv.heap EXCEPT ![gv.ref] = ClampNegative(@)]
    IN  Returned(h1, RDMs(gv.ref, c.dissimilarity_measure, deepcopy(c.descriptors),
                          deepcopy(c.rdm_descriptors),
                          deepcopy(c.pattern_descriptors)))

(* ------------------------------------------------------------ transform *)

\* The caller's functions: one that returns a new block (lambda d: 2 * d)
\* and one that assigns into the block it is given and returns it.
Funs == {"double", "clamp_inplace"}

ApplyFun(h, ref, fun) ==
    IF fun = "double"
    THEN [heap |-> Alloc(h, [i \in 1..Len(h[ref]) |->
                                [j \in 1..Len(h[ref][i]) |-> FMul(Num(2), h[ref][i][j])]]),
          ref |-> Len(h) + 1]
    ELSE [heap |-> [h EXCEPT ![ref] = ClampNegative(@)], ref |-> ref]

transform(h, c, fun) ==
    LET gv == get_vectors(h, c)
        fv == ApplyFun(gv.heap, gv.ref, fun)
    IN  IF c.dissimilarity_measure = None THEN Raised(fv.heap, "TypeError")
        ELSE Returned(fv.heap, RDMs(fv.ref, S_transformed_sp \o c.dissimilarity_measure,
                                    deepcopy(c.descriptors),
                                    deepcopy(c.rdm_descriptors),
                                    deepcopy(c.pattern_descriptors)))

(* ----------------------------------------------------- minmax_transform *)

\* Rescale with the minimum and maximum of each row in place of lo and hi.
RescalePerRow(a, lo, hi) ==
    [i \in 1..Len(a) |-> [j \in 1..Len(a[i]) |->
        FDiv(FSub(a[i][j], ArrayMin(<<a[i]>>)),
             FSub(ArrayMax(<<a[i]>>), ArrayMin(<<a[i]>>)))]]

\* Rescale that leaves 0 where the range is empty.
RescaleZeroRange(a, lo, hi) ==
    [i \in 1..Len(a) |-> [j \in 1..Len(a[i]) |->
        IF FEq(lo, hi) THEN Num(0) ELSE FDiv(FSub(a[i][j], lo), FSub(hi, lo))]]

\* (dissimilarities - d_min) / (d_max - d_min), a new array.
Rescale(a, lo, hi) ==
    [i \in 1..Len(a) |-> [j \in 1..Len(a[i]) |->
        FDiv(FSub(a[i][j], lo), FSub(hi, lo))]]

minmax_transform(h, c) ==
    LET gv == get_vectors(h, c)
        d_max == ArrayMax(gv.heap[gv.ref])
        d_min == ArrayMin(gv.heap[gv.ref])
        h1 == Alloc(gv.heap, Rescale(gv.heap[gv.ref], d_min, d_max))
    IN  IF c.dissimilarity_measure = None THEN Raised(h1, "TypeError")
        ELSE Returned(h1, RDMs(Len(h1), S_minmax_sp \o c.dissimilarity_measure,
                               deepcopy(c.descriptors),
                               deepcopy(c.rdm_descriptors),
                               deepcopy(c.pattern_descriptors)))

(* --------------------------------------------- geotopological_transform *)

\* Line 158: dissimilarities[dissimilarities < gt_min] = 0
ClampLow(a, gt_min) ==
    [i \in 1..Len(a) |-> [j \in 1..Len(a[i]) |->
        IF FLt(a[i][j], gt_min) THEN Num(0) ELSE a[i][j]]]

\* Lines 159-161: the entries now in [gt_min, gt_max] are rescaled.
RescaleBand(a, gt_min, gt_max) ==
    [i \in 1..Len(a) |-> [j \in 1..Len(a[i]) |->
        IF FGe(a[i][j], gt_min) /\ FLe(a[i][j], gt_max)
        THEN FDiv(FSub(a[i][j], gt_min), FSub(gt_max, gt_min))
        ELSE a[i][j]]]

\* Line 162: dissimilarities[dissimilarities > gt_max] = 1
ClampHigh(a, gt_max) ==
    [i \in 1..Len(a) |-> [j \in 1..Len(a[i]) |->
        IF FGt(a[i][j], gt_max) THEN Num(1) ELSE a[i][j]]]

geotopological_transform(h, c, l, u) ==
    LET gv == get_vectors(h, c)
        gt_min == Quantile(gv.heap[gv.ref], l)
        gt_max == Quantile(gv.heap[gv.ref], u)
        h1 == [gv.heap EXCEPT ![gv.ref] = ClampLow(@, gt_min)]
        h2 == [h1 EXCEPT ![gv.ref] = RescaleBand(@, gt_min, gt_max)]
        h3 == [h2 EXCEPT ![gv.ref] = ClampHigh(@, gt_max)]
    IN  IF c.dissimilarity_measure = None THEN Raised(h3, "TypeError")
        ELSE Returned(h3, RDMs(gv.ref, S_geotopological_sp \o c.dissimilarity_measure,
                               deepcopy(c.descriptors),
                               deepcopy(c.rdm_descriptors),
                               deepcopy(c.pattern_descriptors)))

(* --------------------------------------------------- geodesic_transform *)

\* The n with n * (n - 1) / 2 = p, or 0 when p is no such number.
NDimOf(p) ==
    IF \E n \in 1..(p + 1) : n * (n - 1) = 2 * p
    THEN CHOOSE n \in 1..(p + 1) : n * (n - 1) = 2 * p
    ELSE 0

\* The place of the pair (i, j), i < j, in the condensed vector of n patterns.
PairIndex(n, i, j) == (i - 1) * n - ((i - 1) * i) \div 2 + (j - i)

\* scipy's squareform of a condensed vector: the symmetric n x n matrix
\* with a zero diagonal.
squareform(v) ==
    LET n == NDimOf(Len(v))
    IN  [i \in 1..n |-> [j \in 1..n |->
            IF i = j THEN Num(0)
            ELSE IF i < j THEN v[PairIndex(n, i, j)] ELSE v[PairIndex(n, j, i)]]]

\* squareform of a matrix checks it first (is_valid_dm): symmetric, with a
\* zero diagonal; NaN equals nothing, itself included.
is_valid_dm(A) ==
    /\ \A i, j \in 1..Len(A) : FEq(A[i][j], A[j][i])
    /\ \A i \in 1..Len(A) : FEq(A[i][i], Num(0))

Condense(A) ==
    LET n == Len(A)
    IN  [k \in 1..((n * (n - 1)) \div 2) |->
            LET ij == CHOOSE p \in (1..n) \X (1..n) : p[1] < p[2] /\ PairIndex(n, p[1], p[2]) = k
            IN  A[ij[1]][ij[2]]]

\* nx.from_numpy_array(M): an edge for every nonzero entry of the adjacency
\* matrix, weighted by the entry.  The graph is the set of its edges {i, j},
\* i < j, and the weights are read from M.
from_numpy_array(M) ==
    {e \in (1..Len(M)) \X (1..Len(M)) : e[1] < e[2] /\ M[e[1]][e[2]] # Num(0)}

\* Lines 189-191: the edges whose weight is 1.
long_edges(M, G) == {e \in G : FEq(M[e[1]][e[2]], Num(1))}

\* nx.floyd_warshall_numpy(G): the adjacency matrix with inf for a missing
\* edge and a zero diagonal, relaxed through every node in turn.
RECURSIVE Relax(_, _)
Relax(A, i) ==
    IF i > Len(A) THEN A
    ELSE Relax([j \in 1..Len(A) |-> [k \in 1..Len(A) |->
                    FMin(A[j][k], FAdd(A[i][k], A[j][i]))]], i + 1)

floyd_warshall_numpy(M, G) ==
    Relax([i \in 1..Len(M) |-> [j \in 1..Len(M) |->
              IF i = j THEN Num(0)
              ELSE IF <<i, j>> \in G \/ <<j, i>> \in G THEN M[i][j] ELSE PInf]], 1)

\* Lines 187-192 for one row: the graph of its matrix without its long edges.
PrunedGraph(row) ==
    LET M == squareform(row)
        G == from_numpy_array(M)
    IN  G \ long_edges(M, G)

\* Line 193 for one row: the geodesic distances of its pruned graph.
GeodesicMatrix(row) == floyd_warshall_numpy(squareform(row), PrunedGraph(row))

\* The loop of lines 186-193 from row i on: every row is replaced in place,
\* until a row's matrix fails squareform's check.
RECURSIVE GeodesicRows(_, _, _)
GeodesicRows(h, ref, i) ==
    IF i > Len(h[ref]) THEN [ok |-> TRUE, heap |-> h]
    ELSE LET A == GeodesicMatrix(h[ref][i])
         IN  IF ~is_valid_dm(A) THEN [ok |-> FALSE, heap |-> h]
             ELSE GeodesicRows([h EXCEPT ![ref][i] = Condense(A)], ref, i + 1)

\* geodesic_transform on the dissimilarities as they are, not normalized.
geodesic_transform_raw(h, c) ==
    LET gv == get_vectors(h, c)
        rows == GeodesicRows(gv.heap, gv.ref, 1)
    IN  IF c.dissimilarity_measure = None THEN Raised(gv.heap, "TypeError")
        ELSE IF ~rows.ok THEN Raised(rows.heap, "ValueError")
        ELSE Returned(rows.heap,
                      RDMs(gv.ref, S_geodesic_sp \o c.dissimilarity_measure,
                           deepcopy(c.descriptors),
                           deepcopy(c.rdm_descriptors),
                           deepcopy(c.pattern_descriptors)))

geodesic_transform(h, c) ==
    LET mm == minmax_transform(h, c)
    IN  IF mm.status = "raised" THEN mm
        ELSE LET gv == get_vectors(mm.heap, mm.container)
                 rows == GeodesicRows(gv.heap, gv.ref, 1)
             IN  IF ~rows.ok THEN Raised(rows.heap, "ValueError")
                 ELSE Returned(rows.heap,
                               RDMs(gv.ref, S_geodesic_sp \o c.dissimilarity_measure,
                                    deepcopy(c.descriptors),
                                    deepcopy(c.rdm_descriptors),
                                    deepcopy(c.pattern_descriptors)))

(* ------------------------------------------------------- the state machine *)

\* The shapes <<n_rdm, n_dim>> of the batches of at most maxEntries entries
\* over at least minDim patterns (n_pairs = n_dim * (n_dim - 1) / 2).
Shapes(maxEntries, minDim) ==
    {s \in (1..maxEntries) \X (minDim..(maxEntries + 1)) :
        s[1] * ((s[2] * (s[2] - 1)) \div 2) <= maxEntries}

\* The measure labels of the input containers: None, 'd' and
\* 'squared euclidean'; for the rank specification also '', ' d' (to be
\* stripped) and 'd (ranks)'.
Labels == {None, <<"d">>, S_squared_sp \o S_euclidean}

RankLabels == {None, <<>>, <<" ", "d">>, <<"d">>, <<"d">> \o S_sp_ranks}

GeoLabels == {<<"d">>}

\* The quantiles 0, 1/4, 1/2 and 1 a caller passes as l and u.
Quantiles == {<<0, 1>>, <<1, 4>>, <<1, 2>>, <<1, 1>>}

\* The tie methods a caller passes: rankdata's five, and one it does not know.
Methods == RankMethods \cup {"first"}

NoCall ==
    [op |-> "none", args |-> <<>>, src |-> "rdms", status |-> "none", error |-> "",
     before |-> NoContainer, after |-> NoContainer, depth |-> 0, first |-> None]

\* A container as the caller built it: the block at reference 1, and the
\* index descriptors of n_rdm RDMs and n_dim patterns.
InitWith(shapes, values, labels) ==
    \E s \in shapes, m \in labels :
      \E b \in [1..s[1] -> [1..((s[2] * (s[2] - 1)) \div 2) -> {Num(v) : v \in values}]] :
        /\ heap = <<b>>
        /\ rdms = RDMs(1, m, [session |-> 0],
                       [index |-> [i \in 1..s[1] |-> i - 1]],
                       [index |-> [i \in 1..s[2] |-> i - 1]])
        /\ rdms_new = NoContainer
        /\ last = NoCall

Init == InitWith(Shapes(MaxEntries, 2), (0 - MaxNeg)..MaxVal, Labels)

InitRank == InitWith(Shapes(MaxEntries, 3), (0 - MaxNeg)..MaxVal, RankLabels)

InitGeodesic == InitWith(Shapes(GeoEntries, 3), 0..GeoMaxVal, GeoLabels)

\* A container with its block in place of the reference to it.
Snapshot(h, c) == [c EXCEPT !.dissimilarities = h[c.dissimilarities]]

\* The caller's call of a transform on its container src, with result res.
\* The caller calls the transforms on rdms in any order, any number of times;
\* only rank_transform is applied again to its own result.  rdms_new is the
\* container returned (none when the call raised), the arrays no container
\* holds are collected, and last records the call with the input container
\* as it was before and as it is after the call.
Call(op, args, src, res) ==
    LET c == IF src = "rdms" THEN rdms ELSE rdms_new
        out == res.container.dissimilarities
    IN  /\ rdms' = rdms
        /\ IF res.status = "returned"
           THEN /\ heap' = IF out = 1 THEN <<res.heap[1]>> ELSE <<res.heap[1], res.heap[out]>>
                /\ rdms_new' = [res.container EXCEPT !.dissimilarities = IF out = 1 THEN 1 ELSE 2]
           ELSE /\ heap' = <<res.heap[1]>>
                /\ rdms_new' = NoContainer
        /\ last' = [op |-> op, args |-> args, src |-> src,
                    status |-> res.status, error |-> res.error,
                    before |-> Snapshot(heap, c), after |-> Snapshot(res.heap, c),
                    depth |-> IF src = "rdms" THEN 1 ELSE last.depth + 1,
                    first |-> IF src = "rdms" THEN res.container.dissimilarity_measure
                              ELSE last.first]

RankTransform ==
    \E method \in Methods :
        Call("rank_transform", <<method>>, "rdms", rank_transform(heap, rdms, method))

\* rank_transform applied to the container the last rank_transform returned.
RankTransformAgain ==
    /\ last.op = "rank_transform"
    /\ last.status = "returned"
    /\ last.depth < MaxCalls
    /\ \E method \in Methods :
        Call("rank_transform", <<method>>, "rdms_new", rank_transform(heap, rdms_new, method))

SqrtTransform == Call("sqrt_transform", <<>>, "rdms", sqrt_transform(heap, rdms))

PositiveTransform == Call("positive_transform", <<>>, "rdms", positive_transform(heap, rdms))

Transform ==
    \E fun \in Funs : Call("transform", <<fun>>, "rdms", transform(heap, rdms, fun))

MinmaxTransform == Call("minmax_transform", <<>>, "rdms", minmax_transform(heap, rdms))

GeotopologicalTransform ==
    \E l \in Quantiles, u \in Quantiles :
        Call("geotopological_transform", <<l, u>>, "rdms",
             geotopological_transform(heap, rdms, l, u))

GeodesicTransform == Call("geodesic_transform", <<>>, "rdms", geodesic_transform(heap, rdms))

Next ==
    \/ RankTransform
    \/ SqrtTransform
    \/ PositiveTransform
    \/ Transform
    \/ MinmaxTransform
    \/ GeotopologicalTransform
    \/ GeodesicTransform

Spec == Init /\ [][Next]_vars

NextRank == RankTransform \/ RankTransformAgain

SpecRank == InitRank /\ [][NextRank]_vars

NextGeodesic == GeodesicTransform

SpecGeodesic == InitGeodesic /\ [][NextGeodesic]_vars

(* ------------------------------------------------------------- the claims *)

\* The block of the input container before the last call, and the block of
\* the container the call returned.
X == last.before.dissimilarities
Y == heap[rdms_new.dissimilarities]

Called(op) == last.op = op
ReturnedFrom(op) == last.op = op /\ last.status = "returned"

Entries(a) == {<<i, j>> : i \in 1..Len(a), j \in 1..Len(a[1])}

\* The smallest and the largest entry of the (integer) input block.
XMin == CHOOSE m \in {X[e[1]][e[2]][1] : e \in Entries(X)} :
            \A e \in Entries(X) : m <= X[e[1]][e[2]][1]
XMax == CHOOSE m \in {X[e[1]][e[2]][1] : e \in Entries(X)} :
            \A e \in Entries(X) : X[e[1]][e[2]][1] <= m

\* (x - min)/(max - min) of an integer entry, as a fraction.
Normalized(x) == Rat(x[1] - XMin, XMax - XMin)

(* C1: geotopological_transform with l < u and gt_min < gt_max partitions the
   entries by their original values: the output entry is 0 for x < gt_min,
   1 for x > gt_max and (x - gt_min)/(gt_max - gt_min) in between; no entry
   is processed again on the value an earlier assignment wrote. *)
C1_PartitionByOriginalValues ==
    ReturnedFrom("geotopological_transform") =>
        LET gt_min == Quantile(X, last.args[1])
            gt_max == Quantile(X, last.args[2])
        IN  (FLt(last.args[1], last.args[2]) /\ FLt(gt_min, gt_max)) =>
                \A e \in Entries(X) :
                    LET x == X[e[1]][e[2]]
                    IN  Y[e[1]][e[2]] =
                            IF FLt(x, gt_min) THEN Num(0)
                            ELSE IF FGt(x, gt_max) THEN Num(1)
                            ELSE FDiv(FSub(x, gt_min), FSub(gt_max, gt_min))

(* C4: minmax_transform on a batch with max # min uses one scale for the
   whole batch: every output entry is (x - d_min)/(d_max - d_min) with d_min
   and d_max taken over all rows, lies in [0, 1], is 0 exactly at the global
   minimum and 1 exactly at the global maximum, so a row without the global
   minimum (maximum) has no 0 (1). *)
C4_MinmaxSharedScale ==
    (ReturnedFrom("minmax_transform") /\ XMin # XMax) =>
        /\ \A e \in Entries(X) :
            LET x == X[e[1]][e[2]]
                y == Y[e[1]][e[2]]
            IN  /\ y = Normalized(x)
                /\ IsFinite(y) /\ 0 <= y[1] /\ y[1] <= y[2]
                /\ (y = Num(0)) <=> (x[1] = XMin)
                /\ (y = Num(1)) <=> (x[1] = XMax)
        /\ \A i \in 1..Len(X) :
            /\ (\A j \in 1..Len(X[i]) : X[i][j][1] # XMin) =>
                    (\A j \in 1..Len(X[i]) : Y[i][j] # Num(0))
            /\ (\A j \in 1..Len(X[i]) : X[i][j][1] # XMax) =>
                    (\A j \in 1..Len(X[i]) : Y[i][j] # Num(1))

\* C4's case: a batch of several rows, one of them holding neither the global
\* minimum nor the global maximum, has been rescaled.
C4_Witness ==
    /\ ReturnedFrom("minmax_transform")
    /\ XMin # XMax
    /\ \E i \in 1..Len(X) :
        \A j \in 1..Len(X[i]) :
            /\ X[i][j][1] # XMin
            /\ X[i][j][1] # XMax
            /\ Y[i][j] = Normalized(X[i][j])
            /\ Y[i][j] \notin {Num(0), Num(1)}

(* C5: for every batch with max # min, geotopological_transform(rdms, 0, 1)
   returns the same dissimilarity block as minmax_transform(rdms). *)
C5_GeotopologicalFullBandIsMinmax ==
    (/\ ReturnedFrom("geotopological_transform")
     /\ last.args = <<Num(0), Num(1)>>
     /\ XMin # XMax) =>
        LET mm == minmax_transform(<<X>>, rdms)
        IN  Y = mm.heap[mm.container.dissimilarities]

\* The denominator of the last call's rescaling is zero.
ZeroDenominator ==
    \/ Called("minmax_transform") /\ XMin = XMax
    \/ /\ Called("geotopological_transform")
       /\ Quantile(X, last.args[1]) = Quantile(X, last.args[2])

(* C8 as claimed: with a zero denominator the call fails with a
   DegenerateRangeError and leaves the input untouched. *)
C8_DegenerateRangeRaises ==
    ZeroDenominator =>
        /\ last.status = "raised"
        /\ last.error = "DegenerateRangeError"
        /\ last.after = last.before

(* C8 as amended: with a zero denominator no DegenerateRangeError is raised.
   For a container whose label is a str the call returns a new container in
   which every entry that was divided is NaN (minmax_transform: every entry;
   geotopological_transform: every entry equal to gt_min = gt_max); for a
   label None it raises the TypeError of the label concatenation.  The input
   is untouched. *)
C8_DegenerateRangeGivesNaN ==
    ZeroDenominator =>
        /\ last.error # "DegenerateRangeError"
        /\ last.after = last.before
        /\ IF rdms.dissimilarity_measure = None
           THEN last.status = "raised" /\ last.error = "TypeError"
           ELSE /\ last.status = "returned"
                /\ \A e \in Entries(X) :
                    \/ Called("geotopological_transform")
                        /\ X[e[1]][e[2]] # Quantile(X, last.args[1])
                    \/ Y[e[1]][e[2]] = NaN

\* C8's case: minmax_transform has returned for a batch whose entries are
\* all equal, and every entry of the result is NaN.
C8_Witness ==
    /\ ReturnedFrom("minmax_transform")
    /\ XMin = XMax
    /\ \A e \in Entries(X) : IsNaN(Y[e[1]][e[2]])

InvalidQuantiles ==
    Called("geotopological_transform") /\ FGe(last.args[1], last.args[2])

InvalidMethod ==
    Called("rank_transform") /\ last.args[1] \notin RankMethods

\* The errors that reject a parameter: the claimed InvalidParameterError, and
\* ValueError, which is what the libraries raise for a value they refuse.
ParameterErrors == {"InvalidParameterError", "ValueError"}

(* C9 as claimed: geotopological_transform with l >= u, and rank_transform
   with an unknown method, fail with an invalid-parameter error before
   anything is computed: no entry of the input has changed and no container
   results. *)
C9_InvalidParametersRejected ==
    (InvalidQuantiles \/ InvalidMethod) =>
        /\ last.status = "raised"
        /\ last.error \in ParameterErrors
        /\ rdms_new = NoContainer
        /\ last.after = last.before

(* C9 as amended: rank_transform with an unknown method fails with the
   ValueError of rankdata and no container results; geotopological_transform
   with l >= u is not rejected: for a str label it returns a container, every
   entry of which is 0, 1 or NaN (for a label None it raises the TypeError
   of the label concatenation).  In both cases no entry of the input batch
   has changed. *)
C9_InvalidParametersAsCoded ==
    /\ InvalidMethod =>
        /\ last.status = "raised"
        /\ last.error = "ValueError"
        /\ rdms_new = NoContainer
        /\ last.after = last.before
    /\ InvalidQuantiles =>
        /\ last.after = last.before
        /\ IF rdms.dissimilarity_measure = None
           THEN last.status = "raised" /\ last.error = "TypeError"
           ELSE /\ last.status = "returned"
                /\ \A e \in Entries(X) : Y[e[1]][e[2]] \in {Num(0), Num(1), NaN}

\* C9's case: both invalid calls have been made: this one is
\* geotopological_transform with l > u, which returned a block of 0 and 1
\* from an input that holds other values.
C9_Witness ==
    /\ ReturnedFrom("geotopological_transform")
    /\ FGt(last.args[1], last.args[2])
    /\ \E e \in Entries(X) : X[e[1]][e[2]] \notin {Num(0), Num(1)}
    /\ \A e \in Entries(X) : Y[e[1]][e[2]] \in {Num(0), Num(1)}

(* C6: no transform changes its input container: after the call the
   dissimilarity block, the measure label and the three descriptor mappings
   of the input container are what they were before it, also where the
   transform assigned in place into the array it got from get_vectors(). *)
C6_InputUntouched ==
    last.op # "none" =>
        /\ last.after = last.before
        /\ Snapshot(heap, rdms) = last.before

\* C6's case: positive_transform has clamped a negative entry to 0 in its
\* result while the caller's block still holds the negative entry.
C6_Witness ==
    /\ ReturnedFrom("positive_transform")
    /\ \E e \in Entries(X) :
        /\ X[e[1]][e[2]][1] < 0
        /\ Y[e[1]][e[2]] = Num(0)
        /\ heap[rdms.dissimilarities][e[1]][e[2]] = X[e[1]][e[2]]

\* The label rank_transform starts from, and the number of times a label
\* holds the marker '(ranks)'.
OriginalMeasure ==
    IF rdms.dissimilarity_measure = None THEN <<>> ELSE rdms.dissimilarity_measure

Markers(s) ==
    Cardinality({k \in 1..Len(s) : k + 6 <= Len(s) /\ SubSeq(s, k, k + 6) = S_ranks})

(* C7: after any number n >= 1 of successive rank_transform applications the
   measure label is the label after the first application, and '(ranks)' is
   never appended a second time; the first application appends ' (ranks)'
   (and strips the blanks around the result) only when the original label
   does not hold '(ranks)'. *)
C7_RankLabelIdempotent ==
    ReturnedFrom("rank_transform") =>
        /\ rdms_new.dissimilarity_measure = last.first
        /\ Markers(rdms_new.dissimilarity_measure) =
              IF Markers(OriginalMeasure) = 0 THEN 1 ELSE Markers(OriginalMeasure)
        /\ IF Markers(OriginalMeasure) > 0
           THEN rdms_new.dissimilarity_measure = OriginalMeasure
           ELSE rdms_new.dissimilarity_measure = Strip(OriginalMeasure \o S_sp_ranks)

\* C7's case: rank_transform has been applied to its own result, starting
\* from a label without the marker.
C7_Witness ==
    /\ ReturnedFrom("rank_transform")
    /\ last.depth = 2
    /\ Markers(OriginalMeasure) = 0
    /\ Markers(rdms_new.dissimilarity_measure) = 1

\* The min-max-normalized row i of the input, its matrix, the number of
\* patterns and the pairs of distinct patterns.
NormRow(i) == [p \in 1..Len(X[i]) |-> Normalized(X[i][p])]
NormMatrix(i) == squareform(NormRow(i))
NPatterns == NDimOf(Len(X[1]))
Pairs == {p \in (1..NPatterns) \X (1..NPatterns) : p[1] < p[2]}

\* The output geodesic distance of a pair of row i.
Geodesic(i, p) == Y[i][PairIndex(NPatterns, p[1], p[2])]

\* The graph of section 4.2 for row i: every pair of distinct nodes is an
\* edge weighted by its normalized dissimilarity, but the edges of weight 1.
ClaimedGraph(i) == {p \in Pairs : NormMatrix(i)[p[1]][p[2]] # Num(1)}

\* The lengths of the simple paths of the graph E, weighted by W, from node
\* a to node b that avoid the nodes seen.
RECURSIVE PathLengths(_, _, _, _, _)
PathLengths(E, W, a, b, seen) ==
    IF a = b THEN {Num(0)}
    ELSE UNION {{FAdd(W[a][v], len) : len \in PathLengths(E, W, v, b, seen \cup {v})} :
                 v \in {w \in (1..Len(W)) \ seen : <<a, w>> \in E \/ <<w, a>> \in E}}

\* The sum-of-weights shortest-path distance, inf when there is no path.
ShortestPath(E, W, a, b) ==
    LET lens == PathLengths(E, W, a, b, {a})
    IN  IF lens = {} THEN PInf
        ELSE CHOOSE m \in lens : \A len \in lens : FLe(m, len)

\* The rows with no entry at the global maximum, and those whose normalized
\* dissimilarities obey the triangle inequality.
NoEntryAtMaximum(i) == \A p \in 1..Len(X[i]) : X[i][p][1] # XMax

TriangleInequality(i) ==
    \A a, b, c \in 1..NPatterns :
        FLe(NormMatrix(i)[a][b], FAdd(NormMatrix(i)[a][c], NormMatrix(i)[c][b]))

(* C2 as claimed: for every row whose normalized matrix has no entry equal to
   1, no edge is pruned and the output row equals the normalized input row. *)
C2_UnprunedRowIsNormalizedRow ==
    (ReturnedFrom("geodesic_transform") /\ XMin # XMax) =>
        \A i \in 1..Len(X) :
            NoEntryAtMaximum(i) =>
                /\ long_edges(NormMatrix(i), from_numpy_array(NormMatrix(i))) = {}
                /\ Y[i] = NormRow(i)

(* C2 as amended: for every row whose normalized matrix has no entry equal to
   1, no edge is pruned.  The output of a pair with normalized dissimilarity
   d > 0 is at most d, and equals d when the row's normalized dissimilarities
   obey the triangle inequality; a pair with d = 0 has no edge, and its
   output is the length of an indirect path: positive, or infinite. *)
C2_UnprunedRowShortestPaths ==
    (ReturnedFrom("geodesic_transform") /\ XMin # XMax) =>
        \A i \in 1..Len(X) :
            NoEntryAtMaximum(i) =>
                /\ long_edges(NormMatrix(i), from_numpy_array(NormMatrix(i))) = {}
                /\ \A p \in Pairs :
                    LET d == NormMatrix(i)[p[1]][p[2]]
                    IN  IF d = Num(0) THEN FGt(Geodesic(i, p), Num(0))
                        ELSE /\ FLe(Geodesic(i, p), d)
                             /\ TriangleInequality(i) => Geodesic(i, p) = d

\* C2's case: a batch of two RDMs has been transformed, one of them without
\* an entry at the global maximum or minimum, its entries not all equal and
\* obeying the triangle inequality: its output row is its normalized row.
C2_Witness ==
    /\ ReturnedFrom("geodesic_transform")
    /\ XMin # XMax
    /\ Len(X) = 2
    /\ \E i \in 1..Len(X) :
        /\ NoEntryAtMaximum(i)
        /\ \A p \in 1..Len(X[i]) : X[i][p][1] # XMin
        /\ \E p, q \in 1..Len(X[i]) : X[i][p] # X[i][q]
        /\ TriangleInequality(i)
        /\ Y[i] = NormRow(i)

(* C3: whenever removing the weight-1 edges leaves two nodes of an RDM with
   no connecting path, the call still returns a container, the output entry
   of every such pair is infinity, and every pair that is still connected
   gets its finite sum-of-weights shortest-path distance. *)
C3_DisconnectedPairsInfinite ==
    (/\ Called("geodesic_transform")
     /\ XMin # XMax
     /\ \E i \in 1..Len(X), p \in Pairs :
            ShortestPath(ClaimedGraph(i), NormMatrix(i), p[1], p[2]) = PInf) =>
        /\ last.status = "returned"
        /\ \A i \in 1..Len(X), p \in Pairs :
            LET sp == ShortestPath(ClaimedGraph(i), NormMatrix(i), p[1], p[2])
            IN  /\ Geodesic(i, p) = sp
                /\ IsFinite(Geodesic(i, p)) <=> sp # PInf

(* C10: geodesic_transform prunes the weight-1 edges and nothing else: every
   pair of distinct nodes whose normalized dissimilarity d is not 1 is joined
   by an edge of weight d, also when d = 0; so its output geodesic distance
   is at most d, and 0 when d = 0. *)
C10_OnlyLongEdgesPruned ==
    (ReturnedFrom("geodesic_transform") /\ XMin # XMax) =>
        \A i \in 1..Len(X), p \in Pairs :
            LET d == NormMatrix(i)[p[1]][p[2]]
            IN  d # Num(1) =>
                    /\ p \in PrunedGraph(NormRow(i))
                    /\ FLe(Geodesic(i, p), d)
                    /\ d = Num(0) => Geodesic(i, p) = Num(0)

====
